---------------------------- MODULE Spec2Model ----------------------------
(***************************************************************************)
(* The BCM2708 ARM interrupt controller driver (arch/arm/mach-bcm2708/     *)
(* irq.c): the three register banks, the top-level handler                 *)
(* armctrl_handle_irq with its shortcut and cascade paths, and the chip's  *)
(* mask/unmask callbacks.                                                  *)
(*                                                                         *)
(* A 32-bit register word is the set of its set bit indices (a subset of   *)
(* 0..31): & is intersection, | is union, >> n drops the bits below n and  *)
(* renumbers the rest, ffs is one more than the least index.  Small        *)
(* integers (hwirq numbers, register offsets) stay integers.               *)
(***************************************************************************)
EXTENDS Integers, Sequences, FiniteSets, TLC

VARIABLES
    intc,       \* struct armctrl_ic: the register addresses and the domain
    line,       \* line[b]: the device lines of bank b that are asserted
    enabled,    \* enabled[b]: the enable bits the hardware holds for bank b
    stray,      \* bits of the bank 0 pending word that no source drives
    pc,         \* where armctrl_handle_irq stands
    bank,       \* the argument of the running armctrl_handle_bank
    stat,       \* armctrl_handle_irq's local stat
    bstat,      \* armctrl_handle_bank's local stat
    disp,       \* hwirqs handed to handle_IRQ by the running invocation
    svc,        \* bank 0 bits the running invocation has chosen to service
    reads,      \* reads[b]: reads of bank b's pending register, this invocation
    entry,      \* the bank 0 pending word when the invocation was entered
    entryline,  \* the asserted lines when the invocation was entered
    late,       \* the last dispatch was of a hwirq whose mask had completed
    lastreg,    \* the bank whose pending word the last dispatch was decoded from
    since,      \* since[b]: dispatches decoded from bank b's word since its last read
    wr,         \* the register writes done by the last mask/unmask call
    call,       \* the last mask/unmask call
    masked,     \* hwirqs whose last completed call was a mask
    quiet,      \* hwirqs asserted while masked and not unmasked since
    credit,     \* what the environment may still do
    boot,       \* armctrl_of_init: where it stands, its locals, what it has done
    xl,         \* armctrl_xlate's last return value and its caller's outputs
    wdog,       \* the registered watchdog: its mutex, flags and timeout
    pm,         \* the PM registers of the watchdog, by offset
    thr,        \* thr[t]: the watchdog operation thread t is in, and its locals
    wlog        \* what the watchdog operations have done so far

vars == <<intc, line, enabled, stray, pc, bank, stat, bstat, disp, svc, reads,
          entry, entryline, late, lastreg, since, wr, call, masked, quiet,
          credit, boot, xl, wdog, pm, thr, wlog>>

\* The variables of the interrupt controller and of the watchdog.
ivars == <<intc, line, enabled, stray, pc, bank, stat, bstat, disp, svc, reads,
           entry, entryline, late, lastreg, since, wr, call, masked, quiet,
           credit, boot, xl>>

wvars == <<wdog, pm, thr, wlog>>

hvars == <<pc, bank, stat, bstat, disp, svc, reads, entry, entryline, late,
           lastreg, since>>

-----------------------------------------------------------------------------
(* Words and bit operations *)

WordBits == 0 .. 31

Pow2(n) == 2 ^ n

RECURSIVE BitsFrom(_, _)
\* The bits of the non-negative integer n, counted from index i.
BitsFrom(n, i) ==
    IF n = 0 THEN {}
    ELSE (IF n % 2 = 1 THEN { i } ELSE {}) \cup BitsFrom(n \div 2, i + 1)

\* The word of a non-negative integer constant.
BitsOf(n) == BitsFrom(n, 0)

RECURSIVE BitOr(_, _)
\* a | b on non-negative integers.
BitOr(a, b) ==
    IF a = 0 THEN b
    ELSE IF b = 0 THEN a
    ELSE (IF a % 2 = 1 \/ b % 2 = 1 THEN 1 ELSE 0) + 2 * BitOr(a \div 2, b \div 2)

RECURSIVE BitAnd(_, _)
\* a & b on non-negative integers.
BitAnd(a, b) ==
    IF a = 0 \/ b = 0 THEN 0
    ELSE (IF a % 2 = 1 /\ b % 2 = 1 THEN 1 ELSE 0) + 2 * BitAnd(a \div 2, b \div 2)

MinOf(S) == CHOOSE x \in S : \A y \in S : x <= y

\* ffs(): 0 for a zero word, else one plus the index of the least set bit.
ffs(w) == IF w = {} THEN 0 ELSE MinOf(w) + 1

\* w >> n on a 32-bit word.
Shr(w, n) == { i - n : i \in { j \in w : j >= n } }

BIT(n) == { n }

-----------------------------------------------------------------------------
(* The driver's constants and tables *)

NR_BANKS == 3

IRQS_PER_BANK == 32

SHORTCUT_SHIFT == 10

Banks == 0 .. NR_BANKS - 1

\* A hwirq packed with a shift of 4: the banks overlap.
MAKE_HWIRQ_shift4(b, n) == BitOr(b * Pow2(4), n)

MAKE_HWIRQ(b, n) == BitOr(b * Pow2(5), n)

HWIRQ_BANK(i) == i \div Pow2(5)

HWIRQ_BIT(i) == BIT(BitAnd(i, 31))

\* A source mask one bit too wide: it takes in bit 8.
BANK0_HWIRQ_MASK_wide == BitsOf(511)

BANK0_HWIRQ_MASK == BitsOf(255)

SHORTCUT1_MASK == BitsOf(31744)

SHORTCUT2_MASK == BitsOf(2064384)

BANK1_HWIRQ == BIT(8)

BANK2_HWIRQ == BIT(9)

\* A valid mask that lets through a bit above the shortcut bits of bank 2.
BANK0_VALID_MASK_wide == 0 .. 21

BANK0_VALID_MASK ==
    BANK0_HWIRQ_MASK \cup BANK1_HWIRQ \cup BANK2_HWIRQ
        \cup SHORTCUT1_MASK \cup SHORTCUT2_MASK

\* C arrays are indexed from 0, sequences from 1: At(a, i) is a[i].
At(a, i) == a[i + 1]

reg_pending == <<0, 4, 8>>

reg_enable == <<24, 16, 20>>

reg_disable == <<36, 28, 32>>

\* A table that leaves the last two lines of bank 2 without a mapping.
bank_irqs_short == <<8, 32, 30>>

bank_irqs == <<8, 32, 32>>

shortcuts == <<7, 9, 10, 18, 19, 21, 22, 23, 24, 25, 30>>

\* The address ioremap returned for the register block.
IoBase == 0

\* A pointer that addresses nothing: a field of the static intc that was never
\* assigned, or the result of a failed ioremap.
NoAddr == -1

\* intc.domain when no domain was created, and the domain
\* irq_domain_add_linear(node, IRQS_PER_BANK * NR_BANKS, ...) creates: its
\* size and the hwirqs that have a mapping.
NoDomain == [ size |-> 0, map |-> {} ]

irq_domain_add_linear(size) == [ size |-> size, map |-> {} ]

\* The hwirqs armctrl_of_init creates a mapping for.
MappedIds ==
    UNION { { MAKE_HWIRQ(b, i) : i \in 0 .. At(bank_irqs, b) - 1 } : b \in Banks }

\* What armctrl_of_init leaves in intc when it returns 0 (it never assigns
\* intc.base).
armctrl_of_init ==
    [ base    |-> NoAddr,
      pending |-> [ b \in Banks |-> IoBase + At(reg_pending, b) ],
      enable  |-> [ b \in Banks |-> IoBase + At(reg_enable, b) ],
      disable |-> [ b \in Banks |-> IoBase + At(reg_disable, b) ],
      domain  |-> [ size |-> IRQS_PER_BANK * NR_BANKS, map |-> MappedIds ] ]

-----------------------------------------------------------------------------
(* The controller hardware, as the driver's header comment describes it *)

\* The enable bits a bank holds: bank 0 has enable bits for its own eight
\* sources only (quirks 2 and 3: cascade and shortcut bits have none).
HwMaskable(b) == IF b = 0 THEN BANK0_HWIRQ_MASK ELSE WordBits

AllEnabled == [ b \in Banks |-> HwMaskable(b) ]

NoLines == [ b \in Banks |-> {} ]

\* The shortcut wiring: bank 0 bit k shows line j of bank b.
HwWiring ==
    { <<SHORTCUT_SHIFT + k - 1,
        IF (SHORTCUT_SHIFT + k - 1) \in SHORTCUT1_MASK THEN 1 ELSE 2,
        shortcuts[k]>> : k \in 1 .. Len(shortcuts) }

HwShortcutLines(b) == { w[3] : w \in { x \in HwWiring : x[2] = b } }

\* A source shows in a pending register only while it is enabled.
HwPendingBank(b) == line[b] \cap enabled[b]

\* Bank 0: its own sources, bit 8 (9) while bank 1 (2) has a pending line that
\* has no shortcut, and the shortcut bit of every pending line that has one
\* (quirk 1), plus whatever else the word carries.
HwPending0 ==
    (HwPendingBank(0) \cap BANK0_HWIRQ_MASK)
      \cup (IF HwPendingBank(1) \ HwShortcutLines(1) # {} THEN BIT(8) ELSE {})
      \cup (IF HwPendingBank(2) \ HwShortcutLines(2) # {} THEN BIT(9) ELSE {})
      \cup { w[1] : w \in { x \in HwWiring : x[3] \in HwPendingBank(x[2]) } }
      \cup stray

\* The bank whose register of the given table is at addr (NR_BANKS: none).
HwRegBank(table, addr) ==
    IF \E b \in Banks : IoBase + At(table, b) = addr
    THEN CHOOSE b \in Banks : IoBase + At(table, b) = addr
    ELSE NR_BANKS

readl_relaxed(addr) ==
    LET b == HwRegBank(reg_pending, addr)
    IN  IF b = 0 THEN HwPending0
        ELSE IF b \in Banks THEN HwPendingBank(b)
        ELSE {}

\* The enable bits after val is written to addr: an enable register sets the
\* written bits, a disable register clears them, nothing else has an effect.
HwWrite(val, addr, en) ==
    LET e == HwRegBank(reg_enable, addr)
        d == HwRegBank(reg_disable, addr)
    IN  IF e \in Banks THEN [ en EXCEPT ![e] = @ \cup (val \cap HwMaskable(e)) ]
        ELSE IF d \in Banks THEN [ en EXCEPT ![d] = @ \ val ]
        ELSE en

\* The bank and bit of the device line behind a hwirq.
HwLine(h) == <<h \div IRQS_PER_BANK, h % IRQS_PER_BANK>>

-----------------------------------------------------------------------------
(* The dispatch path: armctrl_handle_irq and what it calls *)

\* What the history of one invocation records at most: its logs hold MaxLog
\* entries and its counters stop at MaxLog.
MaxLog == 8

Log(seq, x) == IF Len(seq) < MaxLog THEN Append(seq, x) ELSE seq

Count(n) == IF n < MaxLog THEN n + 1 ELSE n

\* handle_IRQ(irq_linear_revmap(intc.domain, h), regs), for a word read from
\* bank r: the interrupt's handler runs and its device withdraws the line.
handle_IRQ(h, r) ==
    /\ disp' = Log(disp, h)
    /\ line' = [ line EXCEPT ![HwLine(h)[1]] = @ \ { HwLine(h)[2] } ]
    /\ quiet' = quiet \ { h }
    /\ lastreg' = r
    /\ since' = [ since EXCEPT ![r] = Count(@) ]
    /\ late' = (h \in masked)

\* A shortcut lookup that forgets to shift the word down to the table's index.
armctrl_handle_shortcut_unshifted(b, s) ==
    MAKE_HWIRQ(b, At(shortcuts, (ffs(s) - 1) % Len(shortcuts)))

\* A shortcut lookup that takes the highest set bit of the word.
armctrl_handle_shortcut_highest(b, s) ==
    MAKE_HWIRQ(b, At(shortcuts, (CHOOSE x \in s : \A y \in s : y <= x)
                                    - SHORTCUT_SHIFT))

\* The hwirq armctrl_handle_shortcut(b, regs, s) dispatches.
armctrl_handle_shortcut(b, s) ==
    MAKE_HWIRQ(b, At(shortcuts, ffs(Shr(s, SHORTCUT_SHIFT)) - 1))

\* A decode whose cascade branches name each other's bank.
armctrl_decode_swapped(s) ==
    IF s \cap BANK0_HWIRQ_MASK # {} THEN
        [ do |-> "irq", arg |-> MAKE_HWIRQ(0, ffs(s \cap BANK0_HWIRQ_MASK) - 1),
          bit |-> ffs(s \cap BANK0_HWIRQ_MASK) - 1 ]
    ELSE IF s \cap SHORTCUT1_MASK # {} THEN
        [ do |-> "irq", arg |-> MAKE_HWIRQ(1, At(shortcuts, ffs(Shr(s \cap SHORTCUT1_MASK, SHORTCUT_SHIFT)) - 1)),
          bit |-> ffs(s \cap SHORTCUT1_MASK) - 1 ]
    ELSE IF s \cap SHORTCUT2_MASK # {} THEN
        [ do |-> "irq", arg |-> MAKE_HWIRQ(2, At(shortcuts, ffs(Shr(s \cap SHORTCUT2_MASK, SHORTCUT_SHIFT)) - 1)),
          bit |-> ffs(s \cap SHORTCUT2_MASK) - 1 ]
    ELSE IF s \cap BANK1_HWIRQ # {} THEN
        [ do |-> "bank", arg |-> 2, bit |-> ffs(BANK1_HWIRQ) - 1 ]
    ELSE IF s \cap BANK2_HWIRQ # {} THEN
        [ do |-> "bank", arg |-> 1, bit |-> ffs(BANK2_HWIRQ) - 1 ]
    ELSE
        [ do |-> "bug", arg |-> 0, bit |-> 0 ]

\* A decode that takes the least set bit of s, whatever its category.
armctrl_decode_ascending(s) ==
    LET k == ffs(s) - 1
    IN  IF k \in BANK0_HWIRQ_MASK THEN
            [ do |-> "irq", arg |-> MAKE_HWIRQ(0, k), bit |-> k ]
        ELSE IF k \in BANK1_HWIRQ THEN
            [ do |-> "bank", arg |-> 1, bit |-> k ]
        ELSE IF k \in BANK2_HWIRQ THEN
            [ do |-> "bank", arg |-> 2, bit |-> k ]
        ELSE IF k \in SHORTCUT1_MASK THEN
            [ do |-> "irq", arg |-> armctrl_handle_shortcut(1, s \cap SHORTCUT1_MASK),
              bit |-> k ]
        ELSE IF k \in SHORTCUT2_MASK THEN
            [ do |-> "irq", arg |-> armctrl_handle_shortcut(2, s \cap SHORTCUT2_MASK),
              bit |-> k ]
        ELSE
            [ do |-> "bug", arg |-> 0, bit |-> 0 ]

\* A decode that tests the cascade bit of bank 2 before that of bank 1.
armctrl_decode_bank2first(s) ==
    IF s \cap BANK0_HWIRQ_MASK # {} THEN
        [ do |-> "irq", arg |-> MAKE_HWIRQ(0, ffs(s \cap BANK0_HWIRQ_MASK) - 1),
          bit |-> ffs(s \cap BANK0_HWIRQ_MASK) - 1 ]
    ELSE IF s \cap SHORTCUT1_MASK # {} THEN
        [ do |-> "irq", arg |-> armctrl_handle_shortcut(1, s \cap SHORTCUT1_MASK),
          bit |-> ffs(s \cap SHORTCUT1_MASK) - 1 ]
    ELSE IF s \cap SHORTCUT2_MASK # {} THEN
        [ do |-> "irq", arg |-> armctrl_handle_shortcut(2, s \cap SHORTCUT2_MASK),
          bit |-> ffs(s \cap SHORTCUT2_MASK) - 1 ]
    ELSE IF s \cap BANK2_HWIRQ # {} THEN
        [ do |-> "bank", arg |-> 2, bit |-> ffs(BANK2_HWIRQ) - 1 ]
    ELSE IF s \cap BANK1_HWIRQ # {} THEN
        [ do |-> "bank", arg |-> 1, bit |-> ffs(BANK1_HWIRQ) - 1 ]
    ELSE
        [ do |-> "bug", arg |-> 0, bit |-> 0 ]

\* A decode without the shortcut branches: a shortcut bit sends the handler
\* into the loop over the bank the bit stands for.
armctrl_decode_noshortcut(s) ==
    IF s \cap BANK0_HWIRQ_MASK # {} THEN
        [ do |-> "irq", arg |-> MAKE_HWIRQ(0, ffs(s \cap BANK0_HWIRQ_MASK) - 1),
          bit |-> ffs(s \cap BANK0_HWIRQ_MASK) - 1 ]
    ELSE IF s \cap (SHORTCUT1_MASK \cup BANK1_HWIRQ) # {} THEN
        [ do |-> "bank", arg |-> 1,
          bit |-> ffs(s \cap (SHORTCUT1_MASK \cup BANK1_HWIRQ)) - 1 ]
    ELSE IF s \cap (SHORTCUT2_MASK \cup BANK2_HWIRQ) # {} THEN
        [ do |-> "bank", arg |-> 2,
          bit |-> ffs(s \cap (SHORTCUT2_MASK \cup BANK2_HWIRQ)) - 1 ]
    ELSE
        [ do |-> "bug", arg |-> 0, bit |-> 0 ]

\* A decode whose last branch hands the lowest set bit of an unclassified word
\* to handle_IRQ instead of stopping.
armctrl_decode_unclassified_dispatch(s) ==
    IF s \cap BANK0_HWIRQ_MASK # {} THEN
        [ do |-> "irq", arg |-> MAKE_HWIRQ(0, ffs(s \cap BANK0_HWIRQ_MASK) - 1),
          bit |-> ffs(s \cap BANK0_HWIRQ_MASK) - 1 ]
    ELSE IF s \cap SHORTCUT1_MASK # {} THEN
        [ do |-> "irq", arg |-> armctrl_handle_shortcut(1, s \cap SHORTCUT1_MASK),
          bit |-> ffs(s \cap SHORTCUT1_MASK) - 1 ]
    ELSE IF s \cap SHORTCUT2_MASK # {} THEN
        [ do |-> "irq", arg |-> armctrl_handle_shortcut(2, s \cap SHORTCUT2_MASK),
          bit |-> ffs(s \cap SHORTCUT2_MASK) - 1 ]
    ELSE IF s \cap BANK1_HWIRQ # {} THEN
        [ do |-> "bank", arg |-> 1, bit |-> ffs(BANK1_HWIRQ) - 1 ]
    ELSE IF s \cap BANK2_HWIRQ # {} THEN
        [ do |-> "bank", arg |-> 2, bit |-> ffs(BANK2_HWIRQ) - 1 ]
    ELSE
        [ do |-> "irq", arg |-> MAKE_HWIRQ(0, ffs(s) - 1), bit |-> ffs(s) - 1 ]

\* The branch armctrl_handle_irq's loop body takes for the masked word s:
\* what it does, with which hwirq or bank, and for which bit of s.
armctrl_decode(s) ==
    IF s \cap BANK0_HWIRQ_MASK # {} THEN
        [ do |-> "irq", arg |-> MAKE_HWIRQ(0, ffs(s \cap BANK0_HWIRQ_MASK) - 1),
          bit |-> ffs(s \cap BANK0_HWIRQ_MASK) - 1 ]
    ELSE IF s \cap SHORTCUT1_MASK # {} THEN
        [ do |-> "irq", arg |-> armctrl_handle_shortcut(1, s \cap SHORTCUT1_MASK),
          bit |-> ffs(s \cap SHORTCUT1_MASK) - 1 ]
    ELSE IF s \cap SHORTCUT2_MASK # {} THEN
        [ do |-> "irq", arg |-> armctrl_handle_shortcut(2, s \cap SHORTCUT2_MASK),
          bit |-> ffs(s \cap SHORTCUT2_MASK) - 1 ]
    ELSE IF s \cap BANK1_HWIRQ # {} THEN
        [ do |-> "bank", arg |-> 1, bit |-> ffs(BANK1_HWIRQ) - 1 ]
    ELSE IF s \cap BANK2_HWIRQ # {} THEN
        [ do |-> "bank", arg |-> 2, bit |-> ffs(BANK2_HWIRQ) - 1 ]
    ELSE
        [ do |-> "bug", arg |-> 0, bit |-> 0 ]

\* Where armctrl_handle_irq goes after testing the masked word s.
armctrl_handle_irq_test(s) == IF s = {} THEN "idle" ELSE "decode"

\* A bank loop that returns from the whole handler once its bank reads zero.
armctrl_handle_bank_test_return(s) == IF s = {} THEN "idle" ELSE "bankirq"

\* Where armctrl_handle_bank goes after testing the word s.
armctrl_handle_bank_test(s) == IF s = {} THEN "top" ELSE "bankirq"

\* The interrupt exception enters armctrl_handle_irq.
IrqEntry ==
    /\ pc = "idle"
    /\ HwPending0 # {}
    /\ pc' = "top"
    /\ entry' = HwPending0
    /\ entryline' = line
    /\ disp' = <<>>
    /\ svc' = <<>>
    /\ reads' = [ b \in Banks |-> 0 ]
    /\ since' = [ b \in Banks |-> 0 ]
    /\ UNCHANGED <<intc, boot, xl, wvars, line, enabled, stray, bank, stat, bstat, lastreg,
                   late, wr, call, masked, quiet, credit>>

\* A while condition that takes the word of bank 0 as read, without the mask.
armctrl_handle_irq_read_unmasked ==
    /\ pc = "top"
    /\ LET s == readl_relaxed(intc.pending[0])
           r == HwRegBank(reg_pending, intc.pending[0])
       IN  /\ stat' = s
           /\ reads' = [ reads EXCEPT ![r] = Count(@) ]
           /\ since' = [ since EXCEPT ![r] = 0 ]
           /\ pc' = armctrl_handle_irq_test(s)
    /\ UNCHANGED <<intc, boot, xl, wvars, line, enabled, stray, bank, bstat, disp, svc, entry,
                   entryline, late, lastreg, wr, call, masked, quiet, credit>>

\* The while condition of armctrl_handle_irq: read bank 0, mask, test.
armctrl_handle_irq_read ==
    /\ pc = "top"
    /\ LET s == readl_relaxed(intc.pending[0]) \cap BANK0_VALID_MASK
           r == HwRegBank(reg_pending, intc.pending[0])
       IN  /\ stat' = s
           /\ reads' = [ reads EXCEPT ![r] = Count(@) ]
           /\ since' = [ since EXCEPT ![r] = 0 ]
           /\ pc' = armctrl_handle_irq_test(s)
    /\ UNCHANGED <<intc, boot, xl, wvars, line, enabled, stray, bank, bstat, disp, svc, entry,
                   entryline, late, lastreg, wr, call, masked, quiet, credit>>

\* The loop body of armctrl_handle_irq.
armctrl_handle_irq_body ==
    /\ pc = "decode"
    /\ \E d \in { armctrl_decode(stat) } :
           IF d.do = "irq" THEN
               /\ handle_IRQ(d.arg, 0)
               /\ svc' = Log(svc, d.bit)
               /\ pc' = "top"
               /\ UNCHANGED bank
           ELSE IF d.do = "bank" THEN
               /\ bank' = d.arg
               /\ svc' = Log(svc, d.bit)
               /\ pc' = "bank"
               /\ UNCHANGED <<line, disp, quiet, lastreg, since, late>>
           ELSE
               /\ pc' = "bug"
               /\ UNCHANGED <<line, disp, quiet, lastreg, since, late, bank, svc>>
    /\ UNCHANGED <<intc, boot, xl, wvars, enabled, stray, stat, bstat, reads, entry, entryline,
                   wr, call, masked, credit>>

\* The while condition of armctrl_handle_bank: read the bank, test.
armctrl_handle_bank_read ==
    /\ pc = "bank"
    /\ LET s == readl_relaxed(intc.pending[bank])
           r == HwRegBank(reg_pending, intc.pending[bank])
       IN  /\ bstat' = s
           /\ reads' = [ reads EXCEPT ![r] = Count(@) ]
           /\ since' = [ since EXCEPT ![r] = 0 ]
           /\ pc' = armctrl_handle_bank_test(s)
    /\ UNCHANGED <<intc, boot, xl, wvars, line, enabled, stray, bank, stat, disp, svc, entry,
                   entryline, late, lastreg, wr, call, masked, quiet, credit>>

\* A bank decode that takes the highest set bit of the word.
armctrl_handle_bank_irq_highest(b, s) ==
    MAKE_HWIRQ(b, CHOOSE x \in s : \A y \in s : y <= x)

\* The hwirq the loop body of armctrl_handle_bank dispatches.
armctrl_handle_bank_irq(b, s) == MAKE_HWIRQ(b, ffs(s) - 1)

\* A bank loop that works through the word it read once, without reading the
\* register again until every bit of that word has been dispatched.
armctrl_handle_bank_body_snapshot ==
    /\ pc = "bankirq"
    /\ \E h \in { armctrl_handle_bank_irq(bank, bstat) } : handle_IRQ(h, bank)
    /\ bstat' = bstat \ { MinOf(bstat) }
    /\ pc' = IF bstat' = {} THEN "bank" ELSE "bankirq"
    /\ UNCHANGED <<intc, boot, xl, wvars, enabled, stray, bank, stat, svc, reads, entry,
                   entryline, wr, call, masked, credit>>

\* The loop body of armctrl_handle_bank.
armctrl_handle_bank_body ==
    /\ pc = "bankirq"
    /\ \E h \in { armctrl_handle_bank_irq(bank, bstat) } : handle_IRQ(h, bank)
    /\ pc' = "bank"
    /\ UNCHANGED <<intc, boot, xl, wvars, enabled, stray, bank, stat, bstat, svc, reads, entry,
                   entryline, wr, call, masked, credit>>

Handler ==
    \/ IrqEntry
    \/ armctrl_handle_irq_read
    \/ armctrl_handle_irq_body
    \/ armctrl_handle_bank_read
    \/ armctrl_handle_bank_body

-----------------------------------------------------------------------------
(* The chip callbacks *)

\* A mask that writes the bit to the bank's pending register.
armctrl_mask_irq_pending(h) ==
    [ val |-> HWIRQ_BIT(h), addr |-> intc.pending[HWIRQ_BANK(h)] ]

\* A mask that goes through bank 0's disable register whatever the bank.
armctrl_mask_irq_bank0(h) ==
    [ val |-> HWIRQ_BIT(h), addr |-> intc.disable[0] ]

\* The register write armctrl_mask_irq does for hwirq h.
armctrl_mask_irq(h) ==
    [ val |-> HWIRQ_BIT(h), addr |-> intc.disable[HWIRQ_BANK(h)] ]

\* An unmask that goes through bank 0's enable register whatever the bank.
armctrl_unmask_irq_bank0(h) ==
    [ val |-> HWIRQ_BIT(h), addr |-> intc.enable[0] ]

\* The register write armctrl_unmask_irq does for hwirq h.
armctrl_unmask_irq(h) ==
    [ val |-> HWIRQ_BIT(h), addr |-> intc.enable[HWIRQ_BANK(h)] ]

\* A caller runs the chip's irq_mask on hwirq h.
MaskCall(h) ==
    /\ credit.ops > 0
    /\ LET w == armctrl_mask_irq(h)
       IN  /\ wr' = <<w>>
           /\ enabled' = HwWrite(w.val, w.addr, enabled)
    /\ call' = [ op |-> "mask", hwirq |-> h ]
    /\ masked' = masked \cup { h }
    /\ credit' = [ credit EXCEPT !.ops = @ - 1 ]
    /\ UNCHANGED <<intc, boot, xl, wvars, line, stray, quiet>>
    /\ UNCHANGED hvars

\* A caller runs the chip's irq_unmask on hwirq h.
UnmaskCall(h) ==
    /\ credit.ops > 0
    /\ LET w == armctrl_unmask_irq(h)
       IN  /\ wr' = <<w>>
           /\ enabled' = HwWrite(w.val, w.addr, enabled)
    /\ call' = [ op |-> "unmask", hwirq |-> h ]
    /\ masked' = masked \ { h }
    /\ quiet' = quiet \ { h }
    /\ credit' = [ credit EXCEPT !.ops = @ - 1 ]
    /\ UNCHANGED <<intc, boot, xl, wvars, line, stray>>
    /\ UNCHANGED hvars

\* The device behind hwirq h asserts its line.
Raise(h) ==
    /\ credit.raise > 0
    /\ HwLine(h)[2] \notin line[HwLine(h)[1]]
    /\ line' = [ line EXCEPT ![HwLine(h)[1]] = @ \cup { HwLine(h)[2] } ]
    /\ quiet' = IF h \in masked THEN quiet \cup { h } ELSE quiet
    /\ credit' = [ credit EXCEPT !.raise = @ - 1 ]
    /\ UNCHANGED <<intc, boot, xl, wvars, enabled, stray, wr, call, masked>>
    /\ UNCHANGED hvars

-----------------------------------------------------------------------------
(* Bring-up: armctrl_of_init, one step per call it makes *)

\* The static intc before armctrl_of_init has run: zero-initialised.
IntcZero ==
    [ base    |-> NoAddr,
      pending |-> [ b \in Banks |-> NoAddr ],
      enable  |-> [ b \in Banks |-> NoAddr ],
      disable |-> [ b \in Banks |-> NoAddr ],
      domain  |-> NoDomain ]

\* Before the first call: nothing requested, nothing mapped.
BootOff ==
    [ pc |-> "off", b |-> 0, i |-> 0, base |-> NoAddr, calls |-> 0,
      region |-> FALSE, chip |-> {}, halt |-> "none", ret |-> <<>> ]

\* After one call has returned 0.
BootDone ==
    [ pc |-> "off", b |-> NR_BANKS, i |-> At(bank_irqs, NR_BANKS - 1),
      base |-> IoBase, calls |-> 1, region |-> TRUE, chip |-> MappedIds,
      halt |-> "none", ret |-> <<0>> ]

\* panic() and BUG(): the system halts with the message, nothing runs after.
Halt(msg) == [ boot EXCEPT !.pc = "halt", !.halt = msg ]

\* How many times of_irq_init finds a node that matches irq_of_match.
MaxInitCalls == 2

\* of_irq_init calls armctrl_of_init for a matching node.
OfInitCall ==
    /\ boot.pc = "off"
    /\ boot.calls < MaxInitCalls
    /\ pc = "idle"
    /\ boot' = [ boot EXCEPT !.pc = "resource", !.calls = @ + 1, !.b = 0,
                             !.i = 0, !.base = NoAddr ]
    /\ UNCHANGED <<intc, xl, wvars, line, enabled, stray, wr, call, masked, quiet,
                   credit>>
    /\ UNCHANGED hvars

\* Where armctrl_of_init goes on the result of of_address_to_resource.
armctrl_of_init_resource(ok) == IF ok THEN "ioremap" ELSE "halt"

\* ret = of_address_to_resource(node, 0, &res); if (ret) panic(...).
OfInitResource ==
    /\ boot.pc = "resource"
    /\ \E ok \in BOOLEAN :
           boot' = IF armctrl_of_init_resource(ok) = "halt"
                   THEN Halt("unable to find IC registers")
                   ELSE [ boot EXCEPT !.pc = armctrl_of_init_resource(ok) ]
    /\ UNCHANGED <<intc, xl, wvars, line, enabled, stray, wr, call, masked, quiet,
                   credit>>
    /\ UNCHANGED hvars

\* Where armctrl_of_init goes on the pointer ioremap returned.
armctrl_of_init_ioremap(base) == IF base # NoAddr THEN "region" ELSE "halt"

\* base = ioremap(...); if (!base) panic(...).
OfInitIoremap ==
    /\ boot.pc = "ioremap"
    /\ \E base \in { IoBase, NoAddr } :
           boot' = IF armctrl_of_init_ioremap(base) = "halt"
                   THEN [ Halt("unable to map IC registers") EXCEPT !.base = base ]
                   ELSE [ boot EXCEPT !.pc = armctrl_of_init_ioremap(base),
                                      !.base = base ]
    /\ UNCHANGED <<intc, xl, wvars, line, enabled, stray, wr, call, masked, quiet,
                   credit>>
    /\ UNCHANGED hvars

\* An armctrl_of_init that does not look at what request_region returned.
armctrl_of_init_region_unchecked(ok) == "domain"

\* Where armctrl_of_init goes on the result of request_region.
armctrl_of_init_region(ok) == IF ok THEN "domain" ELSE "halt"

\* if (!request_region(...)) panic(...): the region is granted only while
\* nobody holds it, and is then held.
OfInitRegion ==
    /\ boot.pc = "region"
    /\ \E ok \in (IF boot.region THEN { FALSE } ELSE BOOLEAN) :
           boot' = IF armctrl_of_init_region(ok) = "halt"
                   THEN Halt("unable to request resources for IC registers")
                   ELSE [ boot EXCEPT !.pc = armctrl_of_init_region(ok),
                                      !.region = @ \/ ok ]
    /\ UNCHANGED <<intc, xl, wvars, line, enabled, stray, wr, call, masked, quiet,
                   credit>>
    /\ UNCHANGED hvars

\* Where armctrl_of_init goes on the domain irq_domain_add_linear returned.
armctrl_of_init_domain(d) == IF d # NoDomain THEN "bank" ELSE "halt"

\* intc.domain = irq_domain_add_linear(...); if (!intc.domain) panic(...).
OfInitDomain ==
    /\ boot.pc = "domain"
    /\ \E d \in { irq_domain_add_linear(IRQS_PER_BANK * NR_BANKS), NoDomain } :
           /\ intc' = [ intc EXCEPT !.domain = d ]
           /\ boot' = IF armctrl_of_init_domain(d) = "halt"
                      THEN Halt("unable to create IRQ domain")
                      ELSE [ boot EXCEPT !.pc = armctrl_of_init_domain(d),
                                         !.b = 0 ]
    /\ UNCHANGED <<xl, wvars, line, enabled, stray, wr, call, masked, quiet, credit>>
    /\ UNCHANGED hvars

\* The head of the loop over the banks: the three register addresses of
\* bank b.
OfInitBank ==
    /\ boot.pc = "bank"
    /\ boot.b < NR_BANKS
    /\ intc' = [ intc EXCEPT
                   !.pending[boot.b] = boot.base + At(reg_pending, boot.b),
                   !.enable[boot.b]  = boot.base + At(reg_enable, boot.b),
                   !.disable[boot.b] = boot.base + At(reg_disable, boot.b) ]
    /\ boot' = [ boot EXCEPT !.pc = "map", !.i = 0 ]
    /\ UNCHANGED <<xl, wvars, line, enabled, stray, wr, call, masked, quiet, credit>>
    /\ UNCHANGED hvars

\* An armctrl_of_init without the BUG_ON: it goes on to the next interrupt
\* when no mapping could be created.
armctrl_of_init_mapping_unchecked(ok) == "map"

\* Where armctrl_of_init goes on the irq irq_create_mapping returned
\* (ok: irq > 0).
armctrl_of_init_mapping(ok) == IF ok THEN "map" ELSE "halt"

\* The loop over the interrupts of bank b: create the mapping of
\* MAKE_HWIRQ(b, i), BUG_ON(irq <= 0), bind it to armctrl_chip with
\* handle_level_irq; after the last one, the next bank.
OfInitMap ==
    /\ boot.pc = "map"
    /\ IF boot.i < At(bank_irqs, boot.b) THEN
           \E ok \in BOOLEAN :
               /\ intc' = IF ok
                          THEN [ intc EXCEPT !.domain.map =
                                     @ \cup { MAKE_HWIRQ(boot.b, boot.i) } ]
                          ELSE intc
               /\ boot' = IF armctrl_of_init_mapping(ok) = "halt"
                          THEN Halt("BUG_ON(irq <= 0)")
                          ELSE [ boot EXCEPT
                                   !.pc = armctrl_of_init_mapping(ok),
                                   !.i = @ + 1,
                                   !.chip = IF ok
                                            THEN @ \cup { MAKE_HWIRQ(boot.b, boot.i) }
                                            ELSE @ ]
       ELSE
           /\ boot' = [ boot EXCEPT !.pc = "bank", !.b = @ + 1 ]
           /\ UNCHANGED intc
    /\ UNCHANGED <<xl, wvars, line, enabled, stray, wr, call, masked, quiet, credit>>
    /\ UNCHANGED hvars

\* return 0.
OfInitReturn ==
    /\ boot.pc = "bank"
    /\ boot.b >= NR_BANKS
    /\ boot' = [ boot EXCEPT !.pc = "off", !.ret = Append(@, 0) ]
    /\ UNCHANGED <<intc, xl, wvars, line, enabled, stray, wr, call, masked, quiet,
                   credit>>
    /\ UNCHANGED hvars

OfInit ==
    \/ OfInitCall
    \/ OfInitResource
    \/ OfInitIoremap
    \/ OfInitRegion
    \/ OfInitDomain
    \/ OfInitBank
    \/ OfInitMap
    \/ OfInitReturn

-----------------------------------------------------------------------------
(* The domain's xlate callback *)

EINVAL == 22

\* What the caller's out_hwirq and out_type hold before the call.
\* spec is the specifier of the last call.
XlateUnset == [ ret |-> 0, hwirq |-> NoAddr, type |-> "unset", spec |-> <<>> ]

\* armctrl_xlate(d, ctrlr, intspec, intsize, out_hwirq, out_type): its return
\* value and what out_hwirq and out_type hold afterwards; out is what they
\* held before.  intspec has intsize cells.
armctrl_xlate(intspec, intsize, out) ==
    IF intsize # 2 THEN [ out EXCEPT !.ret = 0 - EINVAL ]
    ELSE IF At(intspec, 0) >= NR_BANKS THEN [ out EXCEPT !.ret = 0 - EINVAL ]
    ELSE IF At(intspec, 1) >= IRQS_PER_BANK THEN [ out EXCEPT !.ret = 0 - EINVAL ]
    ELSE [ ret |-> 0, hwirq |-> MAKE_HWIRQ(At(intspec, 0), At(intspec, 1)),
           type |-> "IRQ_TYPE_NONE" ]

\* The irq core translates a device's interrupt specifier.
XlateCall(intspec) ==
    /\ \E r \in { armctrl_xlate(intspec, Len(intspec), xl) } :
           xl' = [ ret |-> r.ret, hwirq |-> r.hwirq, type |-> r.type,
                   spec |-> intspec ]
    /\ UNCHANGED <<intc, boot, wvars, line, enabled, stray, wr, call, masked,
                   quiet, credit>>
    /\ UNCHANGED hvars

-----------------------------------------------------------------------------
(* The watchdog driver: one registered device, operations from two threads *)

\* w << n on a 32-bit word.
Shl(w, n) == { i + n : i \in w } \cap WordBits

RECURSIVE WordVal(_)
\* The number a word without bit 31 stands for.
WordVal(w) ==
    IF w = {} THEN 0 ELSE Pow2(MinOf(w)) + WordVal(w \ { MinOf(w) })

EBUSY == 16

\* -e as the 32 bits an int or an unsigned int return value holds.
Neg(e) == WordBits \ BitsOf(e - 1)

SECS_TO_WDOG_TICKS(x) == Shl(x, 16)

WDOG_TICKS_TO_SECS(x) == Shr(x, 16)

PM_RSTC == 28

PM_WDOG == 36

PM_PASSWORD == BitsOf(1509949440)

PM_WDOG_TIME_SET == BitsOf(1048576)

\* 0xffffffcf
PM_RSTC_WRCFG_CLR == WordBits \ BitsOf(48)

PM_RSTC_WRCFG_SET == BitsOf(48)

PM_RSTC_WRCFG_FULL_RESET == BitsOf(32)

PM_RSTC_RESET == BitsOf(258)

WD_MINT == 1

WD_MAXT == WordVal(WDOG_TICKS_TO_SECS(PM_WDOG_TIME_SET))

WD_DEFT == WD_MAXT

\* The module parameter after bcm2708_wdog_init: a value out of range is
\* replaced by the default.
bcm2708_wdog_init(timeout) ==
    IF timeout < WD_MINT \/ timeout > WD_MAXT THEN WD_DEFT ELSE timeout

Threads == { 1, 2 }

\* The owner of a mutex nobody holds.
NoOwner == 0

\* The device bcm2708_wdog_probe registers, with dev->timeout.
bcm2708_wdog_probe(timeout) ==
    [ lock |-> NoOwner, started |-> FALSE, blocked |-> FALSE,
      timeout |-> timeout ]

\* The PM registers before the driver has written to them: the watchdog is
\* not armed.  A register reads as what was last written to it.
PmReset ==
    [ r \in { PM_RSTC, PM_WDOG } |->
        IF r = PM_RSTC THEN PM_RSTC_WRCFG_SET ELSE {} ]

\* A thread outside the driver that may still make left calls.
ThreadIdle(left) ==
    [ pc |-> "idle", op |-> "none", cur |-> {}, ret |-> {}, n |-> 0,
      left |-> left ]

\* Nothing has been called: last is the last start or stop that returned 0,
\* set the value the last start wrote to PM_WDOG.
WlogNone == [ last |-> "none", set |-> [ done |-> FALSE, val |-> {} ] ]

\* The value bcm2708_wdog_start writes to PM_WDOG.
bcm2708_wdog_start_ticks(timeout) ==
    (SECS_TO_WDOG_TICKS(BitsOf(timeout)) \cap PM_WDOG_TIME_SET) \cup PM_PASSWORD

\* The value bcm2708_wdog_restart writes to PM_WDOG.
bcm2708_wdog_restart_ticks == BitsOf(10) \cup PM_PASSWORD

\* The value start and restart write to PM_RSTC after reading cur from it.
bcm2708_wdog_arm(cur) ==
    PM_PASSWORD \cup (cur \cap PM_RSTC_WRCFG_CLR) \cup PM_RSTC_WRCFG_FULL_RESET

\* The value bcm2708_wdog_stop writes to PM_RSTC.
bcm2708_wdog_disarm == PM_PASSWORD \cup PM_RSTC_RESET

\* What bcm2708_wdog_get_timeleft makes of the value read from PM_WDOG.
bcm2708_wdog_remaining(val) == WDOG_TICKS_TO_SECS(val \cap PM_WDOG_TIME_SET)

\* A mutex_lock that returns whether or not the mutex is held.
mutex_lock_unheld(owner) == TRUE

\* mutex_lock returns once nobody holds the mutex.
mutex_lock(owner) == owner = NoOwner

\* A stop that never looks at the blocked flag.
bcm2708_wdog_busy_stop_unchecked(op, blocked) == blocked /\ op # "stop"

\* Whether start, stop or get_timeleft leaves with -EBUSY.
bcm2708_wdog_busy(op, blocked) == blocked

\* Where an operation that is not busy goes on.
bcm2708_wdog_first(op) ==
    IF op = "stop" THEN "rstc_wr"
    ELSE IF op = "get_timeleft" THEN "timeleft"
    ELSE "wdog"

\* A thread calls start, stop or get_timeleft through the watchdog core, or
\* bcm2708_wdog_restart through the machine's restart hook.
WdogCall(t, op) ==
    /\ thr[t].pc = "idle"
    /\ thr[t].left > 0
    /\ thr' = [ thr EXCEPT ![t] = [ ThreadIdle(thr[t].left - 1)
                                      EXCEPT !.pc = "lock", !.op = op ] ]
    /\ UNCHANGED <<wdog, pm, wlog>>
    /\ UNCHANGED ivars

\* bcm2708_wdog_lock(wdog); restart has no test of blocked after it.
bcm2708_wdog_lock(t) ==
    /\ thr[t].pc = "lock"
    /\ mutex_lock(wdog.lock)
    /\ wdog' = [ wdog EXCEPT !.lock = t ]
    /\ thr' = [ thr EXCEPT ![t].pc = IF thr[t].op = "restart" THEN "wdog"
                                      ELSE "check" ]
    /\ UNCHANGED <<pm, wlog>>
    /\ UNCHANGED ivars

\* if (wdog->blocked) { ... return -EBUSY; } of start, stop and get_timeleft.
bcm2708_wdog_check(t) ==
    /\ thr[t].pc = "check"
    /\ IF bcm2708_wdog_busy(thr[t].op, wdog.blocked)
       THEN thr' = [ thr EXCEPT ![t].pc = "unlock", ![t].ret = Neg(EBUSY) ]
       ELSE thr' = [ thr EXCEPT ![t].pc = bcm2708_wdog_first(thr[t].op) ]
    /\ UNCHANGED <<wdog, pm, wlog>>
    /\ UNCHANGED ivars

\* writel_relaxed(..., wdog->pm + PM_WDOG) of start and restart.
bcm2708_wdog_write_wdog(t) ==
    /\ thr[t].pc = "wdog"
    /\ \E v \in { IF thr[t].op = "start"
                  THEN bcm2708_wdog_start_ticks(wdog.timeout)
                  ELSE bcm2708_wdog_restart_ticks } :
           /\ pm' = [ pm EXCEPT ![PM_WDOG] = v ]
           /\ wlog' = IF thr[t].op = "start"
                      THEN [ wlog EXCEPT !.set = [ done |-> TRUE, val |-> v ] ]
                      ELSE wlog
    /\ thr' = [ thr EXCEPT ![t].pc = "rstc_rd", ![t].n = @ + 1 ]
    /\ UNCHANGED wdog
    /\ UNCHANGED ivars

\* cur = readl_relaxed(wdog->pm + PM_RSTC) of start and restart.
bcm2708_wdog_read_rstc(t) ==
    /\ thr[t].pc = "rstc_rd"
    /\ thr' = [ thr EXCEPT ![t].pc = "rstc_wr", ![t].cur = pm[PM_RSTC],
                           ![t].n = @ + 1 ]
    /\ UNCHANGED <<wdog, pm, wlog>>
    /\ UNCHANGED ivars

\* writel_relaxed(..., wdog->pm + PM_RSTC) of start, stop and restart.
bcm2708_wdog_write_rstc(t) ==
    /\ thr[t].pc = "rstc_wr"
    /\ pm' = [ pm EXCEPT ![PM_RSTC] = IF thr[t].op = "stop"
                                      THEN bcm2708_wdog_disarm
                                      ELSE bcm2708_wdog_arm(thr[t].cur) ]
    /\ thr' = [ thr EXCEPT ![t].pc = "flag", ![t].n = @ + 1 ]
    /\ UNCHANGED <<wdog, wlog>>
    /\ UNCHANGED ivars

\* The flag an operation sets before it unlocks: started by start and stop,
\* blocked by restart.
bcm2708_wdog_flag(t) ==
    /\ thr[t].pc = "flag"
    /\ wdog' = IF thr[t].op = "start" THEN [ wdog EXCEPT !.started = TRUE ]
               ELSE IF thr[t].op = "stop" THEN [ wdog EXCEPT !.started = FALSE ]
               ELSE [ wdog EXCEPT !.blocked = TRUE ]
    /\ thr' = [ thr EXCEPT ![t].pc = "unlock", ![t].ret = {} ]
    /\ UNCHANGED <<pm, wlog>>
    /\ UNCHANGED ivars

\* remaining = WDOG_TICKS_TO_SECS(readl_relaxed(wdog->pm + PM_WDOG) & ...).
bcm2708_wdog_get_timeleft(t) ==
    /\ thr[t].pc = "timeleft"
    /\ thr' = [ thr EXCEPT ![t].pc = "unlock", ![t].n = @ + 1,
                           ![t].ret = bcm2708_wdog_remaining(pm[PM_WDOG]) ]
    /\ UNCHANGED <<wdog, pm, wlog>>
    /\ UNCHANGED ivars

\* bcm2708_wdog_unlock(wdog) and the return of the operation.
bcm2708_wdog_unlock(t) ==
    /\ thr[t].pc = "unlock"
    /\ wdog' = [ wdog EXCEPT !.lock = NoOwner ]
    /\ thr' = [ thr EXCEPT ![t].pc = "idle" ]
    /\ wlog' = IF thr[t].op \in { "start", "stop" } /\ thr[t].ret = {}
               THEN [ wlog EXCEPT !.last = thr[t].op ]
               ELSE wlog
    /\ UNCHANGED pm
    /\ UNCHANGED ivars

WdogOps == { "start", "stop", "get_timeleft", "restart" }

\* The watchdog as the interrupt controller's runs see it: registered with
\* the default timeout, no thread calls it.
WdogQuiet ==
    /\ wdog = bcm2708_wdog_probe(WD_DEFT)
    /\ pm = PmReset
    /\ thr = [ t \in Threads |-> ThreadIdle(0) ]
    /\ wlog = WlogNone

-----------------------------------------------------------------------------
(* Specifications *)

\* The lines the environment drives while the handler runs.
LiveIds == { MAKE_HWIRQ(0, 1), MAKE_HWIRQ(1, 2), MAKE_HWIRQ(1, 7) }

\* The lines that may be pending when a quiet system takes the interrupt: two
\* sources of bank 0, two lines without a shortcut in each of banks 1 and 2,
\* and every line that has a shortcut.
QuietIds ==
    { MAKE_HWIRQ(0, 1), MAKE_HWIRQ(0, 4),
      MAKE_HWIRQ(1, 2), MAKE_HWIRQ(1, 5), MAKE_HWIRQ(2, 3), MAKE_HWIRQ(2, 31) }
      \cup { MAKE_HWIRQ(w[2], w[3]) : w \in HwWiring }

\* How many of them are pending at once.
MaxPending == 3

\* What the bits of bank 0 that no source drives may read as.
QuietStray == { {}, { 21, 31 }, 21 .. 31 }

MaxRaise == 2

MaxOps == 2

LinesOf(ids) ==
    [ b \in Banks |-> { HwLine(h)[2] : h \in { x \in ids : HwLine(x)[1] = b } } ]

\* Nothing has run yet: the handler is idle, no chip call was made.
InitRun ==
    /\ xl = XlateUnset
    /\ pc = "idle"
    /\ bank = 0
    /\ stat = {}
    /\ bstat = {}
    /\ disp = <<>>
    /\ svc = <<>>
    /\ reads = [ b \in Banks |-> 0 ]
    /\ since = [ b \in Banks |-> 0 ]
    /\ entry = {}
    /\ entryline = NoLines
    /\ late = FALSE
    /\ lastreg = 0
    /\ wr = <<>>
    /\ call = [ op |-> "none", hwirq |-> 0 ]
    /\ masked = {}
    /\ quiet = {}

\* The same, after armctrl_of_init has returned 0.
InitCommon ==
    /\ intc = armctrl_of_init
    /\ boot = BootDone
    /\ InitRun

\* The controller after armctrl_of_init, every source enabled, no line
\* asserted yet; devices and callers act while the handler runs.
Init ==
    /\ InitCommon
    /\ WdogQuiet
    /\ enabled = AllEnabled
    /\ line = NoLines
    /\ stray = {}
    /\ credit = [ raise |-> MaxRaise, ops |-> MaxOps ]

Next ==
    \/ Handler
    \/ \E h \in LiveIds : Raise(h)
    \/ \E h \in LiveIds : MaskCall(h)
    \/ \E h \in LiveIds : UnmaskCall(h)

Spec == Init /\ [][Next]_vars

\* The same, with the processor running the handler to its end: it runs in
\* interrupt context and never yields or suspends.
SpecLive == Spec /\ WF_vars(Handler)

\* Some lines are pending and nothing else changes while they are serviced.
InitQuiet ==
    /\ InitCommon
    /\ WdogQuiet
    /\ enabled = AllEnabled
    /\ \E ids \in { x \in SUBSET QuietIds : Cardinality(x) <= MaxPending } :
           line = LinesOf(ids)
    /\ stray \in QuietStray
    /\ credit = [ raise |-> 0, ops |-> 0 ]

NextQuiet == Handler

SpecQuiet == InitQuiet /\ [][NextQuiet]_vars

\* Every hwirq of the domain: bank 0..2, bit 0..31.
AllIds == { MAKE_HWIRQ(b, i) : b \in Banks, i \in 0 .. IRQS_PER_BANK - 1 }

\* How many chip calls are made.
MaxChipOps == 1

\* The chip callbacks alone, on any hwirq of the domain, with every source
\* enabled or none (the state the hardware resets to).
InitChip ==
    /\ InitCommon
    /\ WdogQuiet
    /\ enabled \in { AllEnabled, NoLines }
    /\ line = NoLines
    /\ stray = {}
    /\ credit = [ raise |-> 0, ops |-> MaxChipOps ]

NextChip ==
    \/ \E h \in AllIds : MaskCall(h)
    \/ \E h \in AllIds : UnmaskCall(h)

SpecChip == InitChip /\ [][NextChip]_vars

\* The hwirqs armctrl_of_init assigned to the lines L (L[b]: lines of bank b).
HwirqsOf(L) == UNION { { MAKE_HWIRQ(b, i) : i \in L[b] } : b \in Banks }

\* One line is asserted, any line the hardware has; the handler services it
\* and callers mask and unmask it, by the hwirq that armctrl_of_init assigned
\* to it.
InitLinear ==
    /\ InitCommon
    /\ WdogQuiet
    /\ enabled = AllEnabled
    /\ \E b \in Banks : \E i \in HwMaskable(b) :
           line = [ NoLines EXCEPT ![b] = { i } ]
    /\ stray = {}
    /\ credit = [ raise |-> 0, ops |-> MaxChipOps ]

NextLinear ==
    \/ Handler
    \/ \E h \in HwirqsOf(line) \cup HwirqsOf(entryline) : MaskCall(h)
    \/ \E h \in HwirqsOf(line) \cup HwirqsOf(entryline) : UnmaskCall(h)

SpecLinear == InitLinear /\ [][NextLinear]_vars

\* Devices, callers of the chip and callers of xlate act while the handler
\* runs.
\* The specifiers translated meanwhile: one xlate accepts, one it refuses.
FrameSpecs == { <<2, 31>>, <<3, 0>> }

NextFrame ==
    \/ Next
    \/ \E intspec \in FrameSpecs : XlateCall(intspec)

SpecFrame == Init /\ [][NextFrame]_vars

\* The cells of the specifiers a device tree may hold: banks and irqs at
\* and around the limits armctrl_xlate tests, and a large value.
XlateCells == { 0, 1, 2, 3, 7, 8, 31, 32, 65536 }

\* Specifiers of one, two and three cells.
XlateSpecs ==
    { << a >> : a \in XlateCells }
      \cup { << a, b >> : a, b \in XlateCells }
      \cup { << a, b, 0 >> : a, b \in { 0, 2, 31 } }

\* The irq core translates specifiers, one after another, after
\* armctrl_of_init has returned.
InitXlate ==
    /\ InitCommon
    /\ WdogQuiet
    /\ enabled = AllEnabled
    /\ line = NoLines
    /\ stray = {}
    /\ credit = [ raise |-> 0, ops |-> 0 ]

NextXlate == \E intspec \in XlateSpecs : XlateCall(intspec)

SpecXlate == InitXlate /\ [][NextXlate]_vars

\* The bits of the words the loop body is tried on: a source, a cascade bit,
\* a shortcut of each bank, and two bits outside the valid mask.
BodyBits == { 1, 8, 10, 15, 21, 31 }

BodyWords == SUBSET BodyBits \ { {} }

\* The lines that make bank 0 show the valid bits of the word w.
BodyLines(w) ==
    LinesOf({ MAKE_HWIRQ(0, k) : k \in w \cap BANK0_HWIRQ_MASK }
              \cup (IF w \cap BANK1_HWIRQ # {} THEN { MAKE_HWIRQ(1, 2) } ELSE {})
              \cup (IF w \cap BANK2_HWIRQ # {} THEN { MAKE_HWIRQ(2, 3) } ELSE {})
              \cup { MAKE_HWIRQ(x[2], x[3]) : x \in { y \in HwWiring : y[1] \in w } })

\* The loop body of armctrl_handle_irq as a function of its local stat: it
\* starts on any nonzero 32-bit value, as if the word read from bank 0 had
\* come through unmasked, and the handler runs on from there.
InitBody ==
    /\ intc = armctrl_of_init
    /\ boot = BootDone
    /\ xl = XlateUnset
    /\ WdogQuiet
    /\ pc = "decode"
    /\ stat \in BodyWords
    /\ entry = stat
    /\ stray = stat \ BANK0_VALID_MASK
    /\ line = BodyLines(stat)
    /\ entryline = line
    /\ enabled = AllEnabled
    /\ reads = [ b \in Banks |-> IF b = 0 THEN 1 ELSE 0 ]
    /\ since = [ b \in Banks |-> 0 ]
    /\ bank = 0
    /\ bstat = {}
    /\ disp = <<>>
    /\ svc = <<>>
    /\ late = FALSE
    /\ lastreg = 0
    /\ wr = <<>>
    /\ call = [ op |-> "none", hwirq |-> 0 ]
    /\ masked = {}
    /\ quiet = {}
    /\ credit = [ raise |-> 0, ops |-> 0 ]

NextBody == Handler

SpecBody == InitBody /\ [][NextBody]_vars

\* The bits of the bank 0 word that a source drives: its own sources, the two
\* cascade bits and the shortcut bits.
HwDriven == HwMaskable(0) \cup BIT(8) \cup BIT(9) \cup { w[1] : w \in HwWiring }

\* The fields of the bank 0 word, and what each may read as: empty, its
\* lowest bit, its highest bit, or every bit of it.
WordFields == { 0 .. 7, 8 .. 8, 9 .. 9, 10 .. 14, 15 .. 20, 21 .. 31 }

FieldValues(f) == { {}, { MinOf(f) }, { k \in f : \A j \in f : j <= k }, f }

RECURSIVE WordsOver(_)
WordsOver(fs) ==
    IF fs = {} THEN { {} }
    ELSE LET f == CHOOSE x \in fs : TRUE
         IN  { v \cup w : v \in FieldValues(f), w \in WordsOver(fs \ { f }) }

\* The values the pending register of bank 0 is read as.
RawWords == WordsOver(WordFields)

\* The interrupt is taken while bank 0 reads as any of RawWords: the driven
\* bits of the word by asserted lines, the others as they are.
InitWord ==
    /\ InitCommon
    /\ WdogQuiet
    /\ enabled = AllEnabled
    /\ \E w \in RawWords :
           /\ line = BodyLines(w \cap HwDriven)
           /\ stray = w \ HwDriven
    /\ credit = [ raise |-> 0, ops |-> 0 ]

NextWord == Handler

SpecWord == InitWord /\ [][NextWord]_vars

\* How many calls into the watchdog driver a thread makes.
MaxWdogOps == 2

\* The interrupt controller while the watchdog is exercised: brought up and
\* left alone.
IntcQuiet ==
    /\ InitCommon
    /\ enabled = AllEnabled
    /\ line = NoLines
    /\ stray = {}
    /\ credit = [ raise |-> 0, ops |-> 0 ]

\* The watchdog after module init and probe with the default timeout; both
\* threads call into the driver.
InitWdog ==
    /\ IntcQuiet
    /\ wdog = bcm2708_wdog_probe(bcm2708_wdog_init(WD_DEFT))
    /\ pm = PmReset
    /\ thr = [ t \in Threads |-> ThreadIdle(MaxWdogOps) ]
    /\ wlog = WlogNone

WdogThread(t) ==
    \/ \E op \in WdogOps : WdogCall(t, op)
    \/ bcm2708_wdog_lock(t)
    \/ bcm2708_wdog_check(t)
    \/ bcm2708_wdog_write_wdog(t)
    \/ bcm2708_wdog_read_rstc(t)
    \/ bcm2708_wdog_write_rstc(t)
    \/ bcm2708_wdog_flag(t)
    \/ bcm2708_wdog_get_timeleft(t)
    \/ bcm2708_wdog_unlock(t)

NextWdog == \E t \in Threads : WdogThread(t)

SpecWdog == InitWdog /\ [][NextWdog]_vars

\* The watchdog after module init with any value of the timeout parameter,
\* in range or one off either end, and probe; one thread calls into the
\* driver.
InitTimeout ==
    /\ IntcQuiet
    /\ \E param \in WD_MINT - 1 .. WD_MAXT + 1 :
           wdog = bcm2708_wdog_probe(bcm2708_wdog_init(param))
    /\ pm = PmReset
    /\ thr = [ t \in Threads |-> ThreadIdle(IF t = 1 THEN MaxWdogOps ELSE 0) ]
    /\ wlog = WlogNone

SpecTimeout == InitTimeout /\ [][NextWdog]_vars

\* Bring-up from the zero-initialised intc: of_irq_init calls armctrl_of_init
\* for each matching node, and every call the function makes may fail.
InitBoot ==
    /\ intc = IntcZero
    /\ boot = BootOff
    /\ InitRun
    /\ WdogQuiet
    /\ enabled = NoLines
    /\ line = NoLines
    /\ stray = {}
    /\ credit = [ raise |-> 0, ops |-> 0 ]

NextBoot == OfInit

SpecBoot == InitBoot /\ [][NextBoot]_vars

-----------------------------------------------------------------------------
(* Properties of the dispatch path with a quiet environment (SpecQuiet) *)

\* The valid bits of bank 0 the hardware shows pending.
PendingValid == HwPending0 \cap BANK0_VALID_MASK

\* A step in which the top-level loop chooses a bit of bank 0 to service.
ServiceStep == Len(svc') = Len(svc) + 1

\* A step that calls handle_IRQ.
DispatchStep == Len(disp') = Len(disp) + 1

\* A step in which armctrl_handle_irq returns.
ReturnStep == pc # "idle" /\ pc' = "idle"

\* The order of service among the bits of bank 0: the cascade bits come
\* after every source and shortcut bit.
Rank(k) == IF k \in BANK1_HWIRQ \cup BANK2_HWIRQ THEN IRQS_PER_BANK + k ELSE k

EnteredWithOnly(k) == entry \cap BANK0_VALID_MASK = { k }

\* The invocation has returned.
Returned == pc = "idle" /\ reads[0] > 0

\* C2: entered with a shortcut bit k, wired to line j of bank B, as the only
\* valid bit pending, the handler never reads the pending register of bank 1
\* or 2 and dispatches at most once, and when it returns it has dispatched
\* exactly once, the hwirq of (B, j).
C2_ShortcutFidelity ==
    \A w \in HwWiring :
        EnteredWithOnly(w[1]) =>
            /\ reads[1] = 0 /\ reads[2] = 0
            /\ Len(disp) <= 1
            /\ disp # <<>> => disp[1] = w[2] * IRQS_PER_BANK + w[3]
            /\ Returned => Len(disp) = 1

\* Entered with only bit 15 pending, the handler has returned after the one
\* dispatch of line 21 of bank 2.
C2_Witness ==
    /\ EnteredWithOnly(15)
    /\ Returned
    /\ disp = << 2 * IRQS_PER_BANK + 21 >>

\* The hwirqs of the lines of bank b in S, in ascending bit order.
RECURSIVE AscendingIds(_, _)
AscendingIds(b, S) ==
    IF S = {} THEN <<>>
    ELSE <<b * IRQS_PER_BANK + MinOf(S)>> \o AscendingIds(b, S \ { MinOf(S) })

IsPrefix(p, q) == Len(p) <= Len(q) /\ \A i \in 1 .. Len(p) : p[i] = q[i]

\* C3: entered with only the cascade bit of bank b pending and the lines S
\* pending in bank b, the handler dispatches the hwirqs of S in ascending bit
\* order and nothing else, reads no other child bank, leaves bank b only after
\* reading it as zero, and returns after |S| dispatches, |S| + 1 reads of
\* bank b and a second read of bank 0.
C3_CascadeChild ==
    \A b \in { 1, 2 } :
        EnteredWithOnly(IF b = 1 THEN 8 ELSE 9) =>
            LET S == entryline[b] \cap enabled[b]
            IN  /\ IsPrefix(disp, AscendingIds(b, S))
                /\ reads[3 - b] = 0
                /\ pc \in { "bank", "bankirq" } => bank = b
                /\ (pc = "top" /\ svc # <<>>) =>
                       /\ bstat = {}
                       /\ disp = AscendingIds(b, S)
                /\ Returned =>
                       /\ disp = AscendingIds(b, S)
                       /\ Len(disp) = Cardinality(S)
                       /\ reads[b] = Cardinality(S) + 1
                       /\ reads[0] = 2

\* Entered with only bit 8 pending and lines 2 and 5 of bank 1 asserted, the
\* handler has returned after dispatching line 2 and then line 5.
C3_Witness ==
    /\ EnteredWithOnly(8)
    /\ entryline[1] = { 2, 5 }
    /\ Returned
    /\ disp = << IRQS_PER_BANK + 2, IRQS_PER_BANK + 5 >>

\* The five masks armctrl_handle_irq tests, in the order it tests them.
Categories ==
    << BANK0_HWIRQ_MASK, SHORTCUT1_MASK, SHORTCUT2_MASK, BANK1_HWIRQ,
       BANK2_HWIRQ >>

\* What a step that services bit k of bank 0 does: "irq0" a dispatch of a
\* source of bank 0, "irq1" ("irq2") a dispatch of a line of bank 1 (2)
\* without entering the bank, "bank1" ("bank2") entering the bank's loop.
Serviced ==
    IF pc' = "bank" /\ ~DispatchStep THEN
        (IF bank' = 1 THEN "bank1" ELSE "bank2")
    ELSE IF DispatchStep /\ pc' = "top" THEN
        (IF disp'[Len(disp')] \div IRQS_PER_BANK = 0 THEN "irq0"
         ELSE IF disp'[Len(disp')] \div IRQS_PER_BANK = 1 THEN "irq1"
         ELSE "irq2")
    ELSE "none"

\* C13: the source mask is bits 0..7, the shortcut masks are bits 10..14 and
\* 15..20, the cascade bits are 8 and 9; no two of them share a bit, every bit
\* of a masked word read from bank 0 is in exactly one of them, and the bit a
\* pass services is always handled the way of its category.
C13_Partition ==
    /\ [](/\ Categories = << 0 .. 7, 10 .. 14, 15 .. 20, { 8 }, { 9 } >>
          /\ \A m, n \in DOMAIN Categories :
                 m # n => Categories[m] \cap Categories[n] = {}
          /\ \A k \in stat :
                 Cardinality({ m \in DOMAIN Categories : k \in Categories[m] }) = 1)
    /\ [][ ServiceStep =>
             LET k == svc'[Len(svc')]
                 m == CHOOSE n \in DOMAIN Categories : k \in Categories[n]
             IN  Serviced = << "irq0", "irq1", "irq2", "bank1", "bank2" >>[m] ]_vars

\* One invocation has serviced a shortcut bit of bank 1, a shortcut bit of
\* bank 2 and then the cascade bit of bank 2.
C13_Witness ==
    /\ Len(svc) = 3
    /\ svc[1] \in 10 .. 14
    /\ svc[2] \in 15 .. 20
    /\ svc[3] = 9
    /\ pc = "bank"

\* The hwirq each shortcut bit of bank 0 stands for: bits 10..14 are lines
\* 7, 9, 10, 18, 19 of bank 1, bits 15..20 are lines 21..25 and 30 of bank 2.
ShortcutTarget(k) ==
    << 32 + 7, 32 + 9, 32 + 10, 32 + 18, 32 + 19,
       64 + 21, 64 + 22, 64 + 23, 64 + 24, 64 + 25, 64 + 30 >>[k - 9]

\* C15: a pass whose masked word has no source bit and has a shortcut bit
\* takes the lowest set bit k of the first shortcut mask that has one
\* (10..14 before 15..20); the index computed from the word, ffs(word >> 10)
\* - 1, is k - 10 and lies in 0..10; and the pass dispatches the hwirq that
\* bit k stands for, without entering a bank.
C15_ShortcutOrder ==
    [][ (pc = "decode" /\ stat \cap (0 .. 7) = {} /\ stat \cap (10 .. 20) # {}) =>
          LET w == IF stat \cap (10 .. 14) # {} THEN stat \cap (10 .. 14)
                   ELSE stat \cap (15 .. 20)
              k == MinOf(w)
          IN  /\ ffs(Shr(w, SHORTCUT_SHIFT)) - 1 = k - 10
              /\ k - 10 \in 0 .. 10
              /\ k - 10 < Len(shortcuts)
              /\ DispatchStep
              /\ disp'[Len(disp')] = ShortcutTarget(k)
              /\ svc'[Len(svc')] = k
              /\ pc' = "top" ]_vars

\* Entered with shortcut bits 11 and 13 both pending, the handler has returned
\* after dispatching line 9 and then line 18 of bank 1.
C15_Witness ==
    /\ entry \cap BANK0_VALID_MASK = { 11, 13 }
    /\ Returned
    /\ disp = << 32 + 9, 32 + 18 >>
    /\ svc = << 11, 13 >>

\* C19: the pending register of bank b (1 or 2) is read only in the loop over
\* bank b, and that loop runs only while the word last read from bank 0 has
\* bank b's cascade bit and neither a source bit nor a shortcut bit; bank 0 is
\* not read while a bank loop runs; and a dispatch decoded from bank 0, a
\* shortcut target included, reads no register.
C19_ChildReadOnlyWhenRequired ==
    [][ /\ \A b \in { 1, 2 } :
               (reads'[b] > reads[b] \/ (pc \in { "bank", "bankirq" } /\ bank = b)) =>
                   /\ pc \in { "bank", "bankirq" }
                   /\ bank = b
                   /\ (IF b = 1 THEN 8 ELSE 9) \in stat
                   /\ stat \cap (0 .. 7) = {}
                   /\ stat \cap (10 .. 20) = {}
                   /\ svc[Len(svc)] = (IF b = 1 THEN 8 ELSE 9)
                   /\ stat' = stat
                   /\ reads'[0] = reads[0]
                   /\ reads'[3 - b] = reads[3 - b]
        /\ (DispatchStep /\ pc = "decode") =>
               /\ reads' = reads
               /\ pc' = "top" ]_vars

\* After the dispatch of a shortcut target, decoded from bank 0 alone, the
\* handler has read bank 2 for its cascade bit.
C19_Witness ==
    /\ Len(svc) = 2
    /\ svc[1] \in 10 .. 20
    /\ svc[2] = 9
    /\ Len(disp) = 1
    /\ reads = [ b \in Banks |-> IF b = 1 THEN 0 ELSE IF b = 0 THEN 2 ELSE 1 ]

\* C21: every pass of the top-level loop decodes its masked word in this
\* order: the lowest source bit (0..7) if there is one, dispatched as that
\* source of bank 0; else the lowest shortcut bit of bank 1 (10..14); else the
\* lowest shortcut bit of bank 2 (15..20), each dispatched as its target;
\* else the loop over bank 1 if bit 8 is set; else the loop over bank 2, and
\* then bit 9 is set.  So a bank loop is entered only on a word without source
\* and shortcut bits, and that of bank 2 only on a word without bit 8.
C21_CategoryPriority ==
    [][ pc = "decode" =>
          /\ IF stat \cap (0 .. 7) # {} THEN
                 /\ DispatchStep /\ pc' = "top"
                 /\ disp'[Len(disp')] = MinOf(stat \cap (0 .. 7))
             ELSE IF stat \cap (10 .. 14) # {} THEN
                 /\ DispatchStep /\ pc' = "top"
                 /\ disp'[Len(disp')] = ShortcutTarget(MinOf(stat \cap (10 .. 14)))
             ELSE IF stat \cap (15 .. 20) # {} THEN
                 /\ DispatchStep /\ pc' = "top"
                 /\ disp'[Len(disp')] = ShortcutTarget(MinOf(stat \cap (15 .. 20)))
             ELSE IF 8 \in stat THEN
                 ~DispatchStep /\ pc' = "bank" /\ bank' = 1
             ELSE
                 9 \in stat /\ ~DispatchStep /\ pc' = "bank" /\ bank' = 2
          /\ pc' = "bank" =>
                 /\ stat \cap ((0 .. 7) \cup (10 .. 20)) = {}
                 /\ bank' = 2 => 8 \notin stat ]_vars

\* With both cascade bits pending, bank 1 was serviced first and the handler
\* is now in the loop over bank 2.
C21_Witness ==
    /\ svc = << 8, 9 >>
    /\ pc = "bank"
    /\ bank = 2
    /\ Len(disp) >= 1
    /\ { 8, 9 } \subseteq entry

\* The hwirqs of the lines L (L[b]: the lines of bank b).
IdsOf(L) == UNION { { b * IRQS_PER_BANK + i : i \in L[b] } : b \in Banks }

\* The elements of the sequence q.
Range(q) == { q[k] : k \in DOMAIN q }

\* C12: bits 21..31 of bank 0's pending register never reach the decode, and
\* the handler behaves as if they read zero: it never stops in BUG(), it
\* dispatches only lines that were asserted, it reads a child bank only if a
\* line of that bank without a shortcut was asserted, it returns having
\* dispatched exactly the asserted lines, and entered with no valid bit
\* pending it returns after one read of bank 0 without a dispatch.
C12_InvalidBitsIgnored ==
    /\ stat \cap (21 .. 31) = {}
    /\ pc # "bug"
    /\ Range(disp) \subseteq IdsOf(entryline)
    /\ \A b \in { 1, 2 } :
           reads[b] > 0 => entryline[b] \ HwShortcutLines(b) # {}
    /\ Returned => (Range(disp) = IdsOf(entryline)
                      /\ Len(disp) = Cardinality(IdsOf(entryline)))
    /\ entry \cap (0 .. 20) = {} =>
           /\ disp = <<>>
           /\ pc \in { "idle", "top" }
           /\ reads[1] = 0 /\ reads[2] = 0
           /\ reads[0] <= 1

\* Entered with bits 21 and 31 as the only bits of bank 0 set, the handler has
\* returned after its one read of bank 0, without a dispatch.
C12_Witness ==
    /\ entry = { 21, 31 }
    /\ Returned
    /\ reads[0] = 1
    /\ disp = <<>>

-----------------------------------------------------------------------------
(* Properties of the dispatch path with devices and callers acting (Spec) *)

\* C4: once entered, armctrl_handle_irq returns: the lines raised are finitely
\* many, each is withdrawn when dispatched, and the cascade bits follow the
\* child banks, so every pending register comes to read zero.
C4_Termination == (pc # "idle") ~> (pc = "idle")

\* The handler has returned after servicing bank 1 through its cascade bit
\* and one more interrupt.
C4_Witness ==
    /\ Returned
    /\ reads[1] >= 2
    /\ Len(disp) >= 2

\* The line behind hwirq h is asserted.
Asserted(h) == HwLine(h)[2] \in line[HwLine(h)[1]]

\* C5: armctrl_handle_irq returns only from its read of bank 0, and only when
\* that read shows no valid bit; no enabled source of any bank is then
\* asserted, so none that was raised during the invocation is left behind.
C5_NoInterruptDropped ==
    [][ ReturnStep =>
          /\ pc = "top"
          /\ PendingValid = {}
          /\ \A b \in Banks : HwPendingBank(b) = {} ]_vars

\* The handler has returned after dispatching line 2 of bank 1 twice: the line
\* was raised again after bank 1 had been serviced.
C5_Witness ==
    /\ Returned
    /\ \E i, j \in DOMAIN disp :
           i < j /\ disp[i] = MAKE_HWIRQ(1, 2) /\ disp[j] = MAKE_HWIRQ(1, 2)

\* The hwirqs the bank 0 word s shows: its sources and its shortcut targets.
ShownBy0(s) ==
    (s \cap BANK0_HWIRQ_MASK)
      \cup { w[2] * IRQS_PER_BANK + w[3] : w \in { x \in HwWiring : x[1] \in s } }

\* C6: every handle_IRQ is for a bit of the word last read from the register
\* it was decoded from (stat for bank 0, the bank loop's stat for a cascaded
\* bank), and it is the only dispatch decoded from that register since that
\* read.
C6_NoSnapshot ==
    [][ DispatchStep =>
          LET h == disp'[Len(disp')]
              r == lastreg'
          IN  /\ since'[r] = 1
              /\ r = 0 => h \in ShownBy0(stat)
              /\ r # 0 => /\ h \div IRQS_PER_BANK = r
                          /\ h % IRQS_PER_BANK \in bstat ]_vars

\* Two dispatches have been decoded from bank 1's register, each after its
\* own read.
C6_Witness ==
    /\ Len(disp) >= 2
    /\ lastreg = 1
    /\ since[1] = 1
    /\ reads[1] >= 2
    /\ disp[Len(disp)] \div IRQS_PER_BANK = 1
    /\ disp[Len(disp) - 1] \div IRQS_PER_BANK = 1

\* C8: a source asserted after its mask completed, and not unmasked since, is
\* not dispatched; and the mask hides nothing else: when the handler returns,
\* every line still asserted is one whose last call was a mask.
C8_MaskIsolation ==
    [][ /\ DispatchStep => disp'[Len(disp')] \notin quiet
        /\ ReturnStep => \A h \in LiveIds : Asserted(h) => h \in masked ]_vars

\* The handler has returned, having dispatched another source, while a source
\* asserted after its mask is still asserted and was not dispatched.
C8_Witness ==
    /\ Returned
    /\ disp # <<>>
    /\ \E h \in quiet :
           /\ Asserted(h)
           /\ \A i \in DOMAIN disp : disp[i] # h

\* A step that is a mask or unmask call.
ChipStep == call' # call \/ wr' # wr \/ credit'.ops # credit.ops

\* C10: a mask or unmask call is one register write, to the enable or disable
\* register of the hwirq's own bank; it changes no other bank's enable bits
\* and nothing the handler holds.  The handler dispatches what the word it
\* read shows, whether or not a mask has completed since the read.
C10_MaskRace ==
    [][ /\ ChipStep =>
            LET b == call'.hwirq \div IRQS_PER_BANK
            IN  /\ Len(wr') = 1
                /\ wr'[1].addr \in { intc.enable[b], intc.disable[b] }
                /\ \A c \in Banks \ { b } : enabled'[c] = enabled[c]
                /\ UNCHANGED <<hvars, line, intc>>
        /\ (pc = "decode" /\ pc' = "top") =>
            /\ DispatchStep
            /\ disp'[Len(disp')] \in ShownBy0(stat)
        /\ (pc = "bankirq" /\ pc' # "bankirq") =>
            /\ DispatchStep
            /\ disp'[Len(disp')] = bank * IRQS_PER_BANK + MinOf(bstat) ]_vars

\* Source 1 of bank 0 was masked after the handler read it pending and before
\* the dispatch, and has been dispatched once.
C10_Witness ==
    /\ late
    /\ disp = << MAKE_HWIRQ(0, 1) >>
    /\ MAKE_HWIRQ(0, 1) \in masked
    /\ 1 \notin enabled[0]

-----------------------------------------------------------------------------
(* Properties of the chip callbacks on every hwirq (SpecChip) *)

\* C7: a mask (unmask) call on the hwirq of (bank b, bit i) does exactly one
\* register write, of the one-bit word 1 << i, to the disable (enable)
\* register of bank b, and the hardware takes it as a write to bank b.
C7_OwnBankWrite ==
    call.op # "none" =>
        LET b == call.hwirq \div IRQS_PER_BANK
            i == call.hwirq % IRQS_PER_BANK
            table == IF call.op = "mask" THEN reg_disable ELSE reg_enable
        IN  /\ Len(wr) = 1
            /\ wr[1].val = { i }
            /\ wr[1].addr = IoBase + At(table, b)
            /\ HwRegBank(table, wr[1].addr) = b

\* Line 7 of bank 1, which has a shortcut in bank 0, has been masked by a
\* write of bit 7 to bank 1's disable register; bank 0's enable bits are as
\* they were.
C7_Witness ==
    /\ call = [ op |-> "mask", hwirq |-> IRQS_PER_BANK + 7 ]
    /\ wr = << [ val |-> { 7 }, addr |-> IoBase + 28 ] >>
    /\ 7 \notin enabled[1]
    /\ enabled[0] = BANK0_HWIRQ_MASK

\* The hwirqs of bank 0's cascade bits (8, 9) and shortcut bits (10..20).
UnmaskableIds ==
    { MAKE_HWIRQ(0, k) :
        k \in BANK1_HWIRQ \cup BANK2_HWIRQ \cup SHORTCUT1_MASK \cup SHORTCUT2_MASK }

\* C9 as claimed: a mask or unmask call on the hwirq of a cascade bit or a
\* shortcut bit of bank 0 is rejected and writes no register.
C9_UnmaskableRejected ==
    (call.op # "none" /\ call.hwirq \in UnmaskableIds) => wr = <<>>

-----------------------------------------------------------------------------
(* Properties of bring-up (SpecBoot) *)

\* intc holds what a completed armctrl_of_init leaves: the pending, enable and
\* disable address of each of the three banks and a domain of 96 with the
\* 8 + 32 + 32 interrupts mapped.
FullyConfigured ==
    /\ intc.pending = [ b \in Banks |-> IoBase + <<0, 4, 8>>[b + 1] ]
    /\ intc.enable = [ b \in Banks |-> IoBase + <<24, 16, 20>>[b + 1] ]
    /\ intc.disable = [ b \in Banks |-> IoBase + <<36, 28, 32>>[b + 1] ]
    /\ intc.domain.size = 96
    /\ intc.domain.map = (0 .. 7) \cup (32 .. 63) \cup (64 .. 95)
    /\ boot.chip = intc.domain.map

\* The interrupts the loops of armctrl_of_init have passed: every one of the
\* banks before boot.b, and those of bank boot.b before boot.i.
Passed ==
    ({ c * 32 + j : c \in 0 .. boot.b - 1, j \in 0 .. 31 } \ (8 .. 31))
      \cup (IF boot.pc = "map" THEN { boot.b * 32 + j : j \in 0 .. boot.i - 1 }
            ELSE {})

\* C16: whenever armctrl_of_init is not running and has not halted the system,
\* either it was never called and intc is untouched, or it has returned 0 and
\* the controller is fully configured; a halt is never followed by a return,
\* and a halted call has returned nothing.  While the loops run, every
\* interrupt they have passed is mapped and bound to the chip.
C16_AllOrNothing ==
    /\ boot.pc \in { "bank", "map" } =>
           (intc.domain.map = Passed /\ boot.chip = Passed)
    /\ (boot.pc = "off" /\ boot.calls = 0) => (intc = IntcZero /\ boot.ret = <<>>)
    /\ (boot.pc = "off" /\ boot.calls > 0) =>
           /\ FullyConfigured
           /\ boot.halt = "none"
           /\ Len(boot.ret) = boot.calls
           /\ \A k \in DOMAIN boot.ret : boot.ret[k] = 0
    /\ ~FullyConfigured => Len(boot.ret) = 0
    /\ boot.halt # "none" => (boot.pc = "halt" /\ Len(boot.ret) < boot.calls)

\* armctrl_of_init has returned 0 with the 72 interrupts mapped.
C16_Witness ==
    /\ boot.pc = "off"
    /\ boot.ret = <<0>>
    /\ Cardinality(intc.domain.map) = 72
    /\ Cardinality(boot.chip) = 72

\* A call after the first one.
SecondCall == boot.calls >= 2

\* C17: a second call of armctrl_of_init changes no field of intc: it gets no
\* further than request_region, which fails because the first call holds the
\* region, and it never returns.
C17_SingleRoot ==
    [][ (SecondCall \/ SecondCall') =>
          /\ intc' = intc
          /\ intc = armctrl_of_init
          /\ boot'.pc \in { "resource", "ioremap", "region", "halt" }
          /\ boot'.ret = <<0>>
          /\ boot'.chip = boot.chip ]_vars

\* The second call has halted the system in request_region, with intc as the
\* first call left it.
C17_Witness ==
    /\ boot.calls = 2
    /\ boot.halt = "unable to request resources for IC registers"
    /\ intc = armctrl_of_init

-----------------------------------------------------------------------------
(* Properties of the loop body on any word (SpecBody) *)

\* The word s is nonzero and has no source bit (0..7), no cascade bit (8, 9)
\* and no shortcut bit (10..20).
Unclassified(s) == s # {} /\ s \cap (0 .. 20) = {}

\* C11: on a nonzero word that matches none of the categories the loop body
\* stops in BUG(): it calls no handle_IRQ, enters no bank and reads no
\* register; nothing runs after BUG(), so bank 0 is never read again; and
\* BUG() is reached in no other way.
C11_UnclassifiedIsFatal ==
    [][ /\ (pc = "decode" /\ Unclassified(stat)) =>
               /\ pc' = "bug"
               /\ disp' = disp /\ svc' = svc /\ reads' = reads
               /\ line' = line /\ bank' = bank
        /\ pc # "bug"
        /\ pc' = "bug" => (pc = "decode" /\ Unclassified(stat)) ]_vars

\* The loop body has stopped in BUG() on the word with bits 21 and 31 only,
\* after the one read of bank 0 and without a dispatch.
C11_Witness ==
    /\ pc = "bug"
    /\ stat = { 21, 31 }
    /\ disp = <<>>
    /\ reads = [ b \in Banks |-> IF b = 0 THEN 1 ELSE 0 ]

-----------------------------------------------------------------------------
(* Properties of the hwirq numbering (SpecLinear) *)

\* The lines of this run: asserted now or when the handler was entered.
RunLines == [ b \in Banks |-> line[b] \cup entryline[b] ]

\* C14: MAKE_HWIRQ(b, i) is b * 32 + i, below 96 and different for different
\* (b, i); HWIRQ_BANK and HWIRQ_BIT give b and 1 << i back; the domain has
\* size 96 and holds the hwirq of every mapped line; the handler dispatches
\* a line (b, i) as b * 32 + i, a hwirq of the domain; and a mask (unmask)
\* call on that hwirq writes bit i to bank b's disable (enable) register and
\* leaves line (b, i) disabled (enabled).
C14_LinearHwirq ==
    /\ \A b \in Banks : \A i \in 0 .. 31 :
           /\ MAKE_HWIRQ(b, i) = b * 32 + i
           /\ MAKE_HWIRQ(b, i) < intc.domain.size
           /\ HWIRQ_BANK(MAKE_HWIRQ(b, i)) = b
           /\ HWIRQ_BIT(MAKE_HWIRQ(b, i)) = { i }
    /\ Cardinality(AllIds) = 96
    /\ intc.domain.size = 96
    /\ IdsOf(RunLines) \subseteq intc.domain.map
    /\ Range(disp) \subseteq IdsOf(entryline)
    /\ call.op # "none" =>
           /\ { call.hwirq } = IdsOf(RunLines)
           /\ \A b \in Banks : \A i \in RunLines[b] :
                  /\ wr = << [ val  |-> { i },
                               addr |-> IF call.op = "mask" THEN intc.disable[b]
                                        ELSE intc.enable[b] ] >>
                  /\ (call.op = "mask") <=> (i \notin enabled[b])

\* Line 9 of bank 1 was dispatched as hwirq 41 and then masked as hwirq 41:
\* bit 9 of bank 1 is disabled.
C14_Witness ==
    /\ disp = << 41 >>
    /\ call = [ op |-> "mask", hwirq |-> 41 ]
    /\ 9 \notin enabled[1]
    /\ entryline[1] = { 9 }

-----------------------------------------------------------------------------
(* Frame properties of the run-time operations (SpecFrame) *)

\* The addresses of the pending registers.
PendingAddrs == { IoBase + 0, IoBase + 4, IoBase + 8 }

\* The addresses of the enable and disable registers.
MaskAddrs ==
    { IoBase + 24, IoBase + 16, IoBase + 20, IoBase + 36, IoBase + 28, IoBase + 32 }

\* A step of armctrl_handle_irq: each moves the handler on.
HandlerStep == pc' # pc

\* A step that is a mask or unmask call.
MaskStep == credit'.ops # credit.ops

\* C20: no step of armctrl_handle_irq, armctrl_mask_irq, armctrl_unmask_irq
\* or armctrl_xlate changes intc or the mappings armctrl_of_init made.  A
\* handler step writes no register: the enable bits stay as they are, and what
\* it reads are pending registers.  A mask or unmask call reads no register
\* and changes nothing of the handler; its one write goes to an enable or
\* disable register, never to a pending register.  An xlate call touches only
\* its caller's outputs.
C20_Frame ==
    [][ /\ intc' = intc
        /\ intc = armctrl_of_init
        /\ boot' = boot
        /\ { intc.pending[b] : b \in Banks } = PendingAddrs
        /\ HandlerStep =>
               /\ enabled' = enabled
               /\ wr' = wr /\ call' = call /\ xl' = xl
               /\ \A b \in Banks :
                      reads'[b] > reads[b] =>
                          /\ pc \in { "top", "bank" }
                          /\ intc.pending[IF pc = "top" THEN 0 ELSE bank]
                                 = IoBase + << 0, 4, 8 >>[b + 1]
        /\ MaskStep =>
               /\ reads' = reads
               /\ UNCHANGED <<hvars, line, xl>>
               /\ Len(wr') = 1
               /\ wr'[1].addr \in MaskAddrs
               /\ wr'[1].addr \notin PendingAddrs
        /\ xl' # xl =>
               UNCHANGED <<hvars, line, enabled, wr, call, masked, credit>> ]_vars

\* While the handler was running, after it had read a pending register and
\* dispatched, a mask call has written a disable register and an xlate call
\* has produced a hwirq; intc is as armctrl_of_init left it.
C20_Witness ==
    /\ pc # "idle"
    /\ Len(disp) >= 1
    /\ call.op = "mask"
    /\ xl.ret = 0 /\ xl.type = "IRQ_TYPE_NONE"
    /\ intc = armctrl_of_init

-----------------------------------------------------------------------------
(* Reachability of BUG() (SpecWord) *)

\* C22: the BUG() branch of armctrl_handle_irq is never taken.  The valid
\* mask is the union of the source mask, the two cascade bits and the two
\* shortcut masks; whatever bank 0 reads as, the word the loop body decodes is
\* nonzero, inside the valid mask, and takes one of the five classified
\* branches; and every single bit of the valid mask is classified.
C22_BugUnreachable ==
    /\ pc # "bug"
    /\ BANK0_VALID_MASK = BANK0_HWIRQ_MASK \cup BANK1_HWIRQ \cup BANK2_HWIRQ
                            \cup SHORTCUT1_MASK \cup SHORTCUT2_MASK
    /\ pc = "decode" =>
          /\ stat # {}
          /\ stat \subseteq BANK0_VALID_MASK
          /\ armctrl_decode(stat).do \in { "irq", "bank" }
    /\ \A k \in WordBits \cap BANK0_VALID_MASK : armctrl_decode({ k }).do # "bug"

\* The handler was entered with all 32 bits of bank 0 set, has serviced every
\* line and has returned.
C22_Witness ==
    /\ entry = WordBits
    /\ Returned
    /\ line = NoLines
    /\ stray = 21 .. 31

-----------------------------------------------------------------------------
(* Dispatched hwirqs and the mappings of armctrl_of_init (SpecLinear) *)

\* C23: armctrl_of_init mapped 72 hwirqs, each with the armctrl chip, and
\* every hwirq the handler passes to the reverse map is one of them: what it
\* has dispatched, what the loop body is about to dispatch, the hwirq of a
\* source bit 0..7 of bank 0, the target of every shortcut bit, and the hwirq
\* of every bit 0..31 of a cascaded bank.
C23_DispatchMapped ==
    /\ Cardinality(intc.domain.map) = 72
    /\ boot.chip = intc.domain.map
    /\ Range(disp) \subseteq intc.domain.map
    /\ (pc = "decode" /\ armctrl_decode(stat).do = "irq") =>
           armctrl_decode(stat).arg \in intc.domain.map
    /\ pc = "bankirq" => armctrl_handle_bank_irq(bank, bstat) \in intc.domain.map
    /\ \A k \in BANK0_HWIRQ_MASK \cup SHORTCUT1_MASK \cup SHORTCUT2_MASK :
           armctrl_decode({ k }).arg \in intc.domain.map
    /\ \A b \in { 1, 2 } : \A i \in WordBits :
           armctrl_handle_bank_irq(b, { i }) \in intc.domain.map

\* Line 31 of bank 2 came in through cascade bit 9 and was dispatched as
\* hwirq 95, the last one mapped.
C23_Witness ==
    /\ entryline = [ NoLines EXCEPT ![2] = { 31 } ]
    /\ svc = << 9 >>
    /\ disp = << 95 >>
    /\ Returned
    /\ 95 \in boot.chip

-----------------------------------------------------------------------------
(* The specifiers armctrl_xlate accepts (SpecXlate) *)

\* Two cells, a bank below 3 and an irq below 32.
XlateAccepts(intspec) ==
    /\ Len(intspec) = 2
    /\ intspec[1] < 3
    /\ intspec[2] < 32

\* C24: armctrl_xlate accepts exactly the specifiers with two cells, bank < 3
\* and irq < 32, and returns 0 with hwirq = bank * 32 + irq and type NONE;
\* on any other specifier it returns -EINVAL and leaves the caller's hwirq and
\* type as they were; and every hwirq it produces is one that armctrl_of_init
\* mapped to the armctrl chip.
C24_XlateMapped ==
    [][ xl' # xl =>
          /\ IF XlateAccepts(xl'.spec) THEN
                 /\ xl'.ret = 0
                 /\ xl'.hwirq = xl'.spec[1] * 32 + xl'.spec[2]
                 /\ xl'.type = "IRQ_TYPE_NONE"
             ELSE
                 /\ xl'.ret = 0 - 22
                 /\ xl'.hwirq = xl.hwirq
                 /\ xl'.type = xl.type
          /\ xl'.ret = 0 =>
                 /\ xl'.hwirq \in intc.domain.map
                 /\ xl'.hwirq \in boot.chip ]_vars

-----------------------------------------------------------------------------
(* The watchdog's blocked flag, lock and timeout (SpecWdog, SpecTimeout) *)

\* C25: blocked is set only by bcm2708_wdog_restart and never cleared; on a
\* blocked device every step of a start, stop or get_timeleft leaves the PM
\* registers and started as they are, the operation makes no register access
\* and it returns -EBUSY; and while the device is not blocked and no
\* operation is inside its locked section, started is true exactly when the
\* last start or stop that returned 0 was a start.
C25_BlockedAbsorbing ==
    /\ []((~wdog.blocked /\ wdog.lock = NoOwner) =>
              (wdog.started <=> wlog.last = "start"))
    /\ [][ /\ wdog.blocked => wdog'.blocked
           /\ (wdog'.blocked /\ ~wdog.blocked) =>
                  \E t \in Threads : thr[t].op = "restart" /\ thr'[t] # thr[t]
           /\ \A t \in Threads :
                  (wdog.blocked /\ thr'[t] # thr[t] /\ thr'[t].op # "restart") =>
                      /\ pm' = pm
                      /\ thr'[t].n = 0
                      /\ wdog'.started = wdog.started
                      /\ thr'[t].pc = "idle" => thr'[t].ret = Neg(EBUSY) ]_vars

\* After a start and a restart, a stop has returned -EBUSY: the device is
\* still marked started and PM_WDOG holds what restart wrote.
C25_Witness ==
    /\ wdog.blocked
    /\ wdog.started
    /\ thr[2].op = "stop"
    /\ thr[2].pc = "idle"
    /\ thr[2].ret = Neg(EBUSY)
    /\ thr[2].n = 0
    /\ pm[PM_WDOG] = bcm2708_wdog_restart_ticks

\* Thread t is between bcm2708_wdog_lock and bcm2708_wdog_unlock.
InTxn(t) == thr[t].pc \notin { "idle", "lock" }

\* C26: at most one thread is between lock and unlock of the device, and it
\* is the one that holds the mutex; every register access is made by the
\* holder; an operation that returns, on any path, held the mutex and has
\* released it; and a start, stop or get_timeleft accesses a register only
\* while blocked is false, so none writes after restart has set it.
C26_MutualExclusion ==
    /\ [](/\ \A t, u \in Threads : (InTxn(t) /\ InTxn(u)) => t = u
          /\ \A t \in Threads : InTxn(t) <=> wdog.lock = t)
    /\ [][ \A t \in Threads :
              /\ thr'[t].n = thr[t].n + 1 =>
                     /\ wdog.lock = t /\ wdog'.lock = t
                     /\ thr[t].op # "restart" => ~wdog.blocked
              /\ (thr[t].pc # "idle" /\ thr'[t].pc = "idle") =>
                     wdog.lock = t /\ wdog'.lock = NoOwner
              /\ (pm' # pm /\ thr'[t] = thr[t]) =>
                     \E u \in Threads : wdog.lock = u /\ thr'[u] # thr[u] ]_vars

\* Thread 1 is in the middle of a start, between its read and its write of
\* PM_RSTC, while thread 2 waits for the mutex in restart.
C26_Witness ==
    /\ thr[1].op = "start"
    /\ thr[1].pc = "rstc_wr"
    /\ wdog.lock = 1
    /\ thr[2].op = "restart"
    /\ thr[2].pc = "lock"

\* C27: for every timeout from WD_MINT to WD_MAXT, the value start writes to
\* PM_WDOG, decoded as get_timeleft decodes the register
\* ((value & PM_WDOG_TIME_SET) >> 16), is the timeout that was set.
C27_TimeoutRoundTrip ==
    wlog.set.done =>
        /\ wdog.timeout \in WD_MINT .. WD_MAXT
        /\ WordVal(Shr(wlog.set.val \cap PM_WDOG_TIME_SET, 16)) = wdog.timeout

=============================================================================
